---- MODULE Spec2Model ----
(***************************************************************************)
(* histogram_macros (src/src/lib.rs): histogram operations over any       *)
(* map-like container (the macros) and the HashHistogram struct generated  *)
(* by histogram_struct!.                                                   *)
(*                                                                         *)
(* Counts are usize.  The model keeps the width: a count is a number in    *)
(* 0 .. Modulus-1 with Modulus = 2^WidthBits, `+` on counts overflows at   *)
(* Modulus, and `as isize` reinterprets the bits as a two's complement     *)
(* number of the same width.  What an overflowing `+` or `-` does depends  *)
(* on the build: with overflow checks (the debug profile) it panics,       *)
(* without them (the release profile) it wraps.  Both builds are modelled. *)
(*                                                                         *)
(* The iteration order of a HashMap is unspecified: every operation that   *)
(* iterates the map does so in an arbitrary order of its keys.             *)
(***************************************************************************)
EXTENDS Integers, Sequences, FiniteSets, TLC

\* ---------------------------------------------------------------- bounds
WidthBits == 2        \* width of usize / isize in the model
MaxSeqLen == 2        \* longest sequence handed to the collect_from macros

Labels == {1, 2, 3}   \* the labels (keys); integers, so they have a natural order

RECURSIVE Pow2(_)
Pow2(n) == IF n = 0 THEN 1 ELSE 2 * Pow2(n - 1)

Modulus == Pow2(WidthBits)         \* usize::MAX + 1
MaxVal == Modulus - 1              \* usize::MAX
IsizeMin == -Pow2(WidthBits - 1)   \* isize::MIN
Amounts == 0 .. MaxVal             \* increments handed to the *_by operations
CollectAmounts == {0, 1, MaxVal}    \* amounts in the pairs handed to collect_from_by_into!
SumCap == Modulus + 1              \* cap of the bookkeeping sums: increments stop past the first overflow

\* ------------------------------------------------- the standard library
\* Option<T>: None is the empty sequence, Some(x) the one-element sequence.
None == <<>>
Some(x) == <<x>>
unwrap_or(o, z) == IF o = None THEN z ELSE o[1]

\* A shared reference &k, the referent it points to, and ToOwned::to_owned / Clone::clone
\* through a reference (which builds a fresh owned value equal to the referent).
Ref(k) == [ref |-> k]
Deref(r) == r.ref
to_owned(r) == Deref(r)

\* HashMap::new / BTreeMap::new
EmptyMap == <<>>
\* Map::get(&self, k: &Q) -> Option<&V>
map_get(d, q) == IF Deref(q) \in DOMAIN d THEN Some(d[Deref(q)]) ELSE None
\* Map::insert(&mut self, k, v)
map_insert(d, k, v) == [x \in (DOMAIN d) \cup {k} |-> IF x = k THEN v ELSE d[x]]
\* Map::len
map_len(d) == Cardinality(DOMAIN d)

\* usize `+`: the value a build without overflow checks stores, and whether
\* the mathematical sum leaves the width (a panic in a build with the checks).
wrapping_add(a, b) == (a + b) % Modulus
add_overflows(a, b) == a + b >= Modulus

\* `n as isize`: the same bits read as two's complement.
as_isize(n) == IF n >= Pow2(WidthBits - 1) THEN n - Modulus ELSE n
\* isize unary `-`: -isize::MIN does not fit; it wraps to isize::MIN without
\* overflow checks and panics with them.
wrapping_neg(x) == IF x = IsizeMin THEN IsizeMin ELSE -x
neg_overflows(x) == x = IsizeMin

\* Every order in which Map::iter may yield the keys of d.
Orders(d) ==
    {s \in [1 .. Cardinality(DOMAIN d) -> DOMAIN d] :
        \A i, j \in DOMAIN s : i # j => s[i] # s[j]}
\* Map::iter in the order ord: the (key, value) pairs.
map_iter(d, ord) == [i \in DOMAIN ord |-> <<ord[i], d[ord[i]]>>]

\* ------------------------------------------------------------ the macros
\* bump_skeleton!(d, kg, ki, v): kg is the key reference given to get_mut,
\* ki the owned key given to insert.
MutBumpDropsOthers(d, kg, ki, v) ==
    IF map_get(d, kg) = None
        THEN map_insert(EmptyMap, ki, v)
        ELSE [d EXCEPT ![Deref(kg)] = wrapping_add(@, v)]
bump_skeleton(d, kg, ki, v) ==
    IF map_get(d, kg) = None
        THEN map_insert(d, ki, v)
        ELSE [d EXCEPT ![Deref(kg)] = wrapping_add(@, v)]
\* whether `*count += v` of bump_skeleton! overflows
bump_overflows(d, kg, v) ==
    map_get(d, kg) # None /\ add_overflows(map_get(d, kg)[1], v)

\* bump_ref_by!(d, k, v): k is a reference
MutBumpRefByIgnoresAmount(d, k, v) == bump_skeleton(d, k, to_owned(k), 1)
bump_ref_by(d, k, v) == bump_skeleton(d, k, to_owned(k), v)
bump_ref(d, k) == bump_ref_by(d, k, 1)
\* bump_by!(d, k, v): k is an owned key
bump_by(d, k, v) == bump_skeleton(d, Ref(k), k, v)
bump(d, k) == bump_by(d, k, 1)

\* get_skeleton!(d, k, z) and its users
MutGetDefaultsToOne(d, k, z) == unwrap_or(map_get(d, k), z + 1)
get_skeleton(d, k, z) == unwrap_or(map_get(d, k), z)
count_ref(d, k) == get_skeleton(d, k, 0)
count(d, k) == count_ref(d, Ref(k))

\* total_skeleton!(d, z) over the pairs `it` yielded by d.iter():
\* reduce(|acc, n| acc + n).unwrap_or(z).  total_acc(it)[i] is acc after i values.
total_acc(it) ==
    LET acc[i \in 1 .. Len(it)] ==
            IF i = 1 THEN it[1][2] ELSE wrapping_add(acc[i - 1], it[i][2])
    IN acc
total_skeleton(it, z) ==
    unwrap_or(IF Len(it) = 0 THEN None ELSE Some(total_acc(it)[Len(it)]), z)
total(it) == total_skeleton(it, 0)
\* whether some `acc + n` of the reduction overflows
total_overflows(it) ==
    \E i \in 2 .. Len(it) : add_overflows(total_acc(it)[i - 1], it[i][2])

\* Iterator::max_by_key over `it` with the value of the pair as the key: the
\* last element with the greatest key (the fold keeps x only when x > y).
MutMaxByKeyKeepsFirst(it) == IF Len(it) = 0 THEN None ELSE Some(it[1])
max_by_key(it) ==
    LET best[i \in 1 .. Len(it)] ==
            IF i = 1 THEN it[1]
            ELSE IF best[i - 1][2] > it[i][2] THEN best[i - 1] ELSE it[i]
    IN IF Len(it) = 0 THEN None ELSE Some(best[Len(it)])
\* Option::map(|(key, _)| key.clone())
map_key_clone(o) == IF o = None THEN None ELSE Some(o[1][1])
\* mode!(d) over the pairs yielded by d.iter()
mode(it) == map_key_clone(max_by_key(it))

\* Ord for a tuple (a, b): lexicographic
tuple_le(x, y) == x[1] < y[1] \/ (x[1] = y[1] /\ x[2] <= y[2])
\* A stable sort of kv, a sequence of <<key, item>> pairs whose keys are
\* tuples, by key: each element is inserted after the elements already placed
\* whose key is not greater.
stable_sort(kv) ==
    LET ins(t, x) ==
            LET p == Cardinality({i \in DOMAIN t : tuple_le(t[i][1], x[1])})
            IN SubSeq(t, 1, p) \o <<x>> \o SubSeq(t, p + 1, Len(t))
        f[i \in 0 .. Len(kv)] == IF i = 0 THEN <<>> ELSE ins(f[i - 1], kv[i])
        sorted == f[Len(kv)]
    IN [i \in DOMAIN sorted |-> sorted[i][2]]
\* slice::sort(): the elements (tuples) are their own keys
slice_sort(v) == stable_sort([i \in DOMAIN v |-> <<v[i], v[i]>>])
\* Iterator::rev
rev(v) == [i \in DOMAIN v |-> v[Len(v) + 1 - i]]
\* map(|(a, b)| (b, a))
swap_pairs(v) == [i \in DOMAIN v |-> <<v[i][2], v[i][1]>>]

\* ranking_skeleton!(seq): seq yields (measure, label) pairs
MutRankingNoRev(seq) == swap_pairs(slice_sort(seq))
ranking_skeleton(seq) == swap_pairs(rev(slice_sort(seq)))
\* ranking!(d) over the pairs yielded by d.iter(): (label, measure) pairs
ranking(it) == ranking_skeleton(swap_pairs(it))

\* collect_from_skeleton!(iter, d, b): b names the increment macro applied per
\* item; result[i] is `result` after i items.
collect_from_skeleton(items, d, b) ==
    LET result[i \in 0 .. Len(items)] ==
            IF i = 0 THEN d
            ELSE IF b = "bump" THEN bump(result[i - 1], items[i])
                               ELSE bump_ref(result[i - 1], items[i])
    IN result
collect_from_into(items, d) == collect_from_skeleton(items, d, "bump")[Len(items)]
collect_from_ref_into(items, d) ==
    collect_from_skeleton(items, d, "bump_ref")[Len(items)]
\* collect_from_by_skeleton!(iter, d, b): items are (key, count) pairs
collect_from_by_skeleton(items, d, b) ==
    LET result[i \in 0 .. Len(items)] ==
            IF i = 0 THEN d
            ELSE IF b = "bump_by"
                    THEN bump_by(result[i - 1], items[i][1], items[i][2])
                    ELSE bump_ref_by(result[i - 1], items[i][1], items[i][2])
    IN result
collect_from_by_into(items, d) ==
    collect_from_by_skeleton(items, d, "bump_by")[Len(items)]
collect_from_ref_by_into(items, d) ==
    collect_from_by_skeleton(items, d, "bump_ref_by")[Len(items)]
\* whether some increment of the loop overflows
collect_overflows(items, d) ==
    \E i \in 1 .. Len(items) :
        bump_overflows(collect_from_by_skeleton(items, d, "bump_by")[i - 1],
                       Ref(items[i][1]), items[i][2])

\* --------------------------------------------------------- HashHistogram
\* HashHistogram::new
HH_new == EmptyMap
\* HashHistogram::bump_by(&mut self, item: &T, increment)
HH_bump_by(h, item, increment) ==
    IF map_get(h, item) = None
        THEN map_insert(h, to_owned(item), increment)
        ELSE [h EXCEPT ![Deref(item)] = wrapping_add(@, increment)]
HH_bump(h, item) == HH_bump_by(h, item, 1)
HH_len(h) == map_len(h)
HH_count(h, item) == unwrap_or(map_get(h, item), 0)
\* HashHistogram::all_labels over the pairs yielded by self.iter()
HH_all_labels(it) == {it[i][1] : i \in DOMAIN it}
\* the sort key of HashHistogram::ranking: -(*n as isize)
ranking_key(n) == wrapping_neg(as_isize(n))
\* HashHistogram::ranking over the pairs yielded by self.iter()
HH_ranking(it) ==
    LET v == swap_pairs(it)
        sorted == stable_sort([i \in DOMAIN v |-> <<<<ranking_key(v[i][1]), 0>>, v[i]>>])
    IN [i \in DOMAIN sorted |-> sorted[i][2]]
\* whether the key closure overflows: slices shorter than 2 are not sorted
\* (the closure never runs), otherwise every element's key is computed.
HH_ranking_overflows(it) ==
    Len(it) >= 2 /\ \E i \in DOMAIN it : neg_overflows(as_isize(it[i][2]))
HH_mode(it) == map_key_clone(max_by_key(it))
\* HashHistogram::total_count: Iterator::sum
HH_total_count(it) == IF Len(it) = 0 THEN 0 ELSE total_acc(it)[Len(it)]

\* ------------------------------------------------------------- the state
VARIABLES
    overflow_checks, \* the build: TRUE = overflow checks on (debug), FALSE = off (release)
    api,             \* what the program uses: "macros" on maps, or "struct" (HashHistogram)
    hist,            \* the map incremented through the owned-key macros (bump!, bump_by!)
    hist_ref,        \* the map incremented through the by-reference macros (bump_ref!, bump_ref_by!)
    hh,              \* the `histogram` field of the HashHistogram
    panicked,        \* the program has panicked (it runs no further)
    last,            \* the last operation, its argument and what it returned
    sum_of,          \* bookkeeping: per label, the mathematical sum of the amounts it was incremented by
    targeted,        \* bookkeeping: the labels that were the target of an increment
    collected,       \* bookkeeping: hist is the result of collect_from_*_into! on an empty map
    input            \* bookkeeping: the (label, amount) pairs it was collected from

vars == <<overflow_checks, api, hist, hist_ref, hh, panicked, last, sum_of, targeted,
          collected, input>>

\* a result record; arg is the label argument of the operation, 0 when it has none
Result(op, arg) ==
    [op |-> op, arg |-> arg, num |-> 0, opt |-> None, rank |-> <<>>, labels |-> <<>>,
     set |-> {}, order |-> <<>>]

Init ==
    /\ overflow_checks \in BOOLEAN
    /\ api \in {"macros", "struct"}
    /\ hist = EmptyMap
    /\ hist_ref = EmptyMap
    /\ hh = HH_new
    /\ panicked = FALSE
    /\ last = Result("new", 0)
    /\ sum_of = [l \in Labels |-> 0]
    /\ targeted = {}
    /\ collected = FALSE
    /\ input = <<>>

\* the program panics inside operation op: nothing is stored
Panic(op, arg) ==
    /\ panicked' = TRUE
    /\ last' = Result(op, arg)
    /\ UNCHANGED <<overflow_checks, api, hist, hist_ref, hh, sum_of, targeted, collected, input>>

\* a read operation returned r
Return(r) ==
    /\ last' = r
    /\ UNCHANGED <<overflow_checks, api, hist, hist_ref, hh, panicked, sum_of, targeted,
                   collected, input>>

\* an increment of k by v went through
Account(k, v) ==
    /\ sum_of' = [sum_of EXCEPT ![k] = @ + v]
    /\ targeted' = targeted \cup {k}
    /\ collected' = FALSE
    /\ input' = <<>>

\* ------------------------------------------------- increments (macros)
\* bump_by!(hist, k, v) and, on its own map, bump_ref_by!(hist_ref, &k, v)
BumpBy(k, v) ==
    /\ ~panicked /\ api = "macros"
    /\ sum_of[k] + v <= SumCap
    /\ IF overflow_checks /\ bump_overflows(hist, Ref(k), v)
          THEN Panic("bump_by", k)
          ELSE /\ hist' = bump_by(hist, k, v)
               /\ hist_ref' = bump_ref_by(hist_ref, Ref(k), v)
               /\ last' = Result("bump_by", k)
               /\ Account(k, v)
               /\ UNCHANGED <<overflow_checks, api, hh, panicked>>

\* bump!(hist, k) and bump_ref!(hist_ref, &k)
Bump(k) ==
    /\ ~panicked /\ api = "macros"
    /\ sum_of[k] + 1 <= SumCap
    /\ IF overflow_checks /\ bump_overflows(hist, Ref(k), 1)
          THEN Panic("bump", k)
          ELSE /\ hist' = bump(hist, k)
               /\ hist_ref' = bump_ref(hist_ref, Ref(k))
               /\ last' = Result("bump", k)
               /\ Account(k, 1)
               /\ UNCHANGED <<overflow_checks, api, hh, panicked>>

\* ------------------------------------------------------- reads (macros)
\* count!(hist, k)
Count(k) ==
    /\ ~panicked /\ api = "macros"
    /\ Return([Result("count", k) EXCEPT !.num = count(hist, k)])

\* total!(hist)
Total ==
    /\ ~panicked /\ api = "macros"
    /\ \E ord \in Orders(hist) :
          LET it == map_iter(hist, ord) IN
          IF overflow_checks /\ total_overflows(it)
             THEN Panic("total", 0)
             ELSE Return([Result("total", 0) EXCEPT !.num = total(it)])

\* mode!(hist)
Mode ==
    /\ ~panicked /\ api = "macros"
    /\ \E ord \in Orders(hist) :
          Return([Result("mode", 0) EXCEPT !.opt = mode(map_iter(hist, ord))])

\* ranking!(hist)
Ranking ==
    /\ ~panicked /\ api = "macros"
    /\ \E ord \in Orders(hist) :
          Return([Result("ranking", 0) EXCEPT !.rank = ranking(map_iter(hist, ord))])

\* ------------------------------------------------------------- collect
SeqsUpTo(S, n) == UNION {[1 .. m -> S] : m \in 0 .. n}
RECURSIVE SumAmounts(_)
SumAmounts(items) ==
    IF items = <<>> THEN 0 ELSE items[1][2] + SumAmounts(Tail(items))
AmountsFor(items, l) == SelectSeq(items, LAMBDA p : p[1] = l)

\* the histogram is rebuilt from the pairs `items`
Collected(items) ==
    /\ sum_of' = [l \in Labels |-> SumAmounts(AmountsFor(items, l))]
    /\ targeted' = {items[i][1] : i \in DOMAIN items}
    /\ collected' = TRUE
    /\ input' = items

\* collect_from_into!(items, HashMap::new()) and collect_from_ref_into! on the references
CollectFromInto(items) ==
    /\ ~panicked /\ api = "macros"
    /\ hist = EmptyMap /\ hist_ref = EmptyMap
    /\ LET pairs == [i \in DOMAIN items |-> <<items[i], 1>>]
           refs == [i \in DOMAIN items |-> Ref(items[i])]
       IN IF overflow_checks /\ collect_overflows(pairs, hist)
             THEN Panic("collect_from_into", 0)
             ELSE /\ hist' = collect_from_into(items, hist)
                  /\ hist_ref' = collect_from_ref_into(refs, hist_ref)
                  /\ last' = Result("collect_from_into", 0)
                  /\ Collected(pairs)
                  /\ UNCHANGED <<overflow_checks, api, hh, panicked>>

\* collect_from_by_into!(items, HashMap::new()) and collect_from_ref_by_into! on the references
CollectFromByInto(items) ==
    /\ ~panicked /\ api = "macros"
    /\ hist = EmptyMap /\ hist_ref = EmptyMap
    /\ LET refs == [i \in DOMAIN items |-> <<Ref(items[i][1]), items[i][2]>>]
       IN IF overflow_checks /\ collect_overflows(items, hist)
             THEN Panic("collect_from_by_into", 0)
             ELSE /\ hist' = collect_from_by_into(items, hist)
                  /\ hist_ref' = collect_from_ref_by_into(refs, hist_ref)
                  /\ last' = Result("collect_from_by_into", 0)
                  /\ Collected(items)
                  /\ UNCHANGED <<overflow_checks, api, hh, panicked>>

\* --------------------------------------------------------- HashHistogram
HHBumpBy(k, v) ==
    /\ ~panicked /\ api = "struct"
    /\ sum_of[k] + v <= SumCap
    /\ IF overflow_checks /\ bump_overflows(hh, Ref(k), v)
          THEN Panic("HashHistogram::bump_by", k)
          ELSE /\ hh' = HH_bump_by(hh, Ref(k), v)
               /\ last' = Result("HashHistogram::bump_by", k)
               /\ Account(k, v)
               /\ UNCHANGED <<overflow_checks, api, hist, hist_ref, panicked>>

HHBump(k) ==
    /\ ~panicked /\ api = "struct"
    /\ sum_of[k] + 1 <= SumCap
    /\ IF overflow_checks /\ bump_overflows(hh, Ref(k), 1)
          THEN Panic("HashHistogram::bump", k)
          ELSE /\ hh' = HH_bump(hh, Ref(k))
               /\ last' = Result("HashHistogram::bump", k)
               /\ Account(k, 1)
               /\ UNCHANGED <<overflow_checks, api, hist, hist_ref, panicked>>

HHLen ==
    /\ ~panicked /\ api = "struct"
    /\ Return([Result("HashHistogram::len", 0) EXCEPT !.num = HH_len(hh)])

HHCount(k) ==
    /\ ~panicked /\ api = "struct"
    /\ Return([Result("HashHistogram::count", k) EXCEPT !.num = HH_count(hh, Ref(k))])

HHAllLabels ==
    /\ ~panicked /\ api = "struct"
    /\ \E ord \in Orders(hh) :
          Return([Result("HashHistogram::all_labels", 0) EXCEPT
                     !.set = HH_all_labels(map_iter(hh, ord))])

HHRanking ==
    /\ ~panicked /\ api = "struct"
    /\ \E ord \in Orders(hh) :
          LET it == map_iter(hh, ord) IN
          IF overflow_checks /\ HH_ranking_overflows(it)
             THEN Panic("HashHistogram::ranking", 0)
             ELSE Return([Result("HashHistogram::ranking", 0) EXCEPT
                             !.labels = HH_ranking(it), !.order = ord])

HHMode ==
    /\ ~panicked /\ api = "struct"
    /\ \E ord \in Orders(hh) :
          Return([Result("HashHistogram::mode", 0) EXCEPT
                     !.opt = HH_mode(map_iter(hh, ord))])

HHTotalCount ==
    /\ ~panicked /\ api = "struct"
    /\ \E ord \in Orders(hh) :
          LET it == map_iter(hh, ord) IN
          IF overflow_checks /\ total_overflows(it)
             THEN Panic("HashHistogram::total_count", 0)
             ELSE Return([Result("HashHistogram::total_count", 0) EXCEPT
                             !.num = HH_total_count(it)])

Next ==
    \/ \E k \in Labels, v \in Amounts : BumpBy(k, v)
    \/ \E k \in Labels : Bump(k)
    \/ \E k \in Labels : Count(k)
    \/ Total
    \/ Mode
    \/ Ranking
    \/ \E items \in SeqsUpTo(Labels, MaxSeqLen) : CollectFromInto(items)
    \/ \E items \in SeqsUpTo(Labels \X CollectAmounts, MaxSeqLen) : CollectFromByInto(items)
    \/ \E k \in Labels, v \in Amounts : HHBumpBy(k, v)
    \/ \E k \in Labels : HHBump(k)
    \/ HHLen
    \/ \E k \in Labels : HHCount(k)
    \/ HHAllLabels
    \/ HHRanking
    \/ HHMode
    \/ HHTotalCount

Spec == Init /\ [][Next]_vars

\* ------------------------------------------------------------ the claims
\* the histogram the program uses, and lookup on it
TheMap == IF api = "struct" THEN hh ELSE hist
Lookup(l) == IF api = "struct" THEN HH_count(hh, Ref(l)) ELSE count(hist, l)
LookupOps == {"count", "HashHistogram::count"}
ModeOps == {"mode", "HashHistogram::mode"}
ReadOps ==
    {"count", "total", "mode", "ranking", "HashHistogram::len", "HashHistogram::count",
     "HashHistogram::all_labels", "HashHistogram::ranking", "HashHistogram::mode",
     "HashHistogram::total_count"}
BumpOps == {"bump", "bump_by", "HashHistogram::bump", "HashHistogram::bump_by"}
\* position of label l in a sequence of labels
PosIn(s, l) == CHOOSE i \in DOMAIN s : s[i] = l
\* the labels listed by the last ranking, in order, whichever API produced it
RankedLabels ==
    IF last.op = "ranking" THEN [i \in DOMAIN last.rank |-> last.rank[i][1]] ELSE last.labels
HasRanking == last.op \in {"ranking", "HashHistogram::ranking"} /\ ~panicked

\* C1: after any sequence of increments applied to an empty histogram, lookup(l)
\* equals the sum of the amounts of the increments that targeted l, for every label l.
C1_LookupIsSumOfAmounts == \A l \in Labels : Lookup(l) = sum_of[l]

\* C2: for a label that was never the target of an increment, lookup returns zero
\* as an ordinary value: no error, and the label is not inserted.
C2_AbsentLookupIsZero ==
    (last.op \in LookupOps /\ last.arg \notin targeted)
        => (last.num = 0 /\ ~panicked /\ last.arg \notin DOMAIN TheMap)
\* C2 witness: on a populated histogram, a lookup of a label never incremented returned.
C2_Witness ==
    last.op \in LookupOps /\ last.arg \notin targeted /\ targeted # {} /\ ~panicked

\* C3: total! of the histogram collected from a sequence into an empty map equals
\* the length of the sequence (count mode), the sum of the supplied amounts
\* (weighted mode), and zero for the empty sequence.
C3_TotalOfCollected ==
    (collected /\ last.op = "total") => (~panicked /\ last.num = SumAmounts(input))

\* C4: mode returns none on an empty histogram and otherwise a present label
\* whose stored measure is the maximum stored measure.
C4_ModeIsAMaximum ==
    last.op \in ModeOps =>
        IF DOMAIN TheMap = {}
            THEN last.opt = None
            ELSE /\ last.opt # None
                 /\ last.opt[1] \in DOMAIN TheMap
                 /\ \A l \in DOMAIN TheMap : TheMap[l] <= TheMap[last.opt[1]]
\* C4 witness: mode returned on a histogram holding labels of different measures.
C4_Witness ==
    /\ last.op \in ModeOps /\ last.opt # None
    /\ \E l \in DOMAIN TheMap : TheMap[l] < TheMap[last.opt[1]]

\* C5: ranking (the macros and HashHistogram::ranking) lists every present label
\* exactly once and no other, with measures non-increasing along the sequence.
C5_RankingIsDescendingPermutation ==
    HasRanking =>
        /\ Len(RankedLabels) = Cardinality(DOMAIN TheMap)
        /\ {RankedLabels[i] : i \in DOMAIN RankedLabels} = DOMAIN TheMap
        /\ \A i, j \in DOMAIN RankedLabels :
              i < j => TheMap[RankedLabels[i]] >= TheMap[RankedLabels[j]]

\* C6 (as claimed): in the result of ranking, the macros' and HashHistogram's alike,
\* two present labels with equal measure appear with the greater label first.
C6_TiesByLabelDescending ==
    HasRanking =>
        \A a, b \in DOMAIN TheMap :
            (a < b /\ TheMap[a] = TheMap[b])
                => PosIn(RankedLabels, b) < PosIn(RankedLabels, a)
\* C6 (amended): in the result of ranking! two present labels with equal measure
\* appear with the greater label first, whatever the iteration order of the map;
\* HashHistogram::ranking leaves labels of equal measure in the order in which
\* the iteration of the map yielded them.
C6_TiesMacroDescendingStructIterationOrder ==
    HasRanking =>
        \A a, b \in DOMAIN TheMap :
            (a < b /\ TheMap[a] = TheMap[b]) =>
                IF last.op = "ranking"
                    THEN /\ a \in {RankedLabels[i] : i \in DOMAIN RankedLabels}
                         /\ b \in {RankedLabels[i] : i \in DOMAIN RankedLabels}
                         /\ PosIn(RankedLabels, b) < PosIn(RankedLabels, a)
                    ELSE (PosIn(RankedLabels, a) < PosIn(RankedLabels, b))
                            <=> (PosIn(last.order, a) < PosIn(last.order, b))
\* C6 witness: ranking! returned on a histogram with two labels of equal measure
\* and a third label of another measure.
C6_Witness ==
    /\ last.op = "ranking" /\ ~panicked
    /\ \E a, b, c \in DOMAIN hist : a < b /\ hist[a] = hist[b] /\ hist[c] # hist[a]

\* C7: the same increments applied through the owned-key macros and through the
\* by-reference macros yield equal maps: same present labels, same measures.
C7_OwnedAndRefAgree == hist = hist_ref
\* C7 witness: both maps hold two labels, one of them incremented by more than one.
C7_Witness ==
    /\ last.op = "bump_by" /\ ~panicked
    /\ Cardinality(DOMAIN hist_ref) >= 2 /\ hist_ref[last.arg] >= 2

\* C8: with counts in a fixed-width unsigned integer, every operation completes
\* with a result and no error, also when a sum or the signed conversion reaches
\* the limit of the width.
C8_NoOperationFails == ~panicked

\* C9: a label is present exactly when it was the target of an increment, a
\* present label is never removed, and a stored measure never decreases from one
\* state to the next.
C9_PresentIffTargetedAndMonotone ==
    [][/\ (DOMAIN TheMap = targeted)'
       /\ \A l \in DOMAIN TheMap : l \in DOMAIN TheMap' /\ TheMap'[l] >= TheMap[l]]_vars

\* C10: the read operations leave the histogram unchanged, and an increment of a
\* label changes only the entry of that label.
C10_Frame ==
    [][/\ last'.op \in ReadOps => (hist' = hist /\ hist_ref' = hist_ref /\ hh' = hh)
       /\ last'.op \in BumpOps =>
             \A m \in Labels \ {last'.arg} :
                 /\ (m \in DOMAIN TheMap') <=> (m \in DOMAIN TheMap)
                 /\ m \in DOMAIN TheMap => TheMap'[m] = TheMap[m]]_vars
\* C10 witness: an increment inserted a label into a histogram that already held others.
C10_Witness ==
    /\ last.op \in BumpOps /\ ~panicked
    /\ last.arg \in DOMAIN TheMap /\ TheMap[last.arg] = sum_of[last.arg]
    /\ Cardinality(DOMAIN TheMap) = 3
====
